---- MODULE Spec2Model ----
(***************************************************************************)
(* Model of the sg-draw flow-field drawer: the FlowField sampler           *)
(* (drawer/flow_field.js), the streamline integrator                       *)
(* (drawer/streamline.js), the colour mapper (drawer/colors.js) and the    *)
(* p5.js sketch that wires them to the page (the later sketch, with the    *)
(* Generate button and the deferred generation callback).                  *)
(*                                                                         *)
(* Numbers.  JavaScript numbers are modelled in fixed point.  A coordinate *)
(* is an integer count of 1/Q grid units; a value sampled from a grid by   *)
(* bilinear interpolation is an integer count of 1/(Q*Q) (the product of   *)
(* two weights in 1/Q units with an integer cell value), so interpolation  *)
(* is exact.  A displacement of the integrator is the real displacement    *)
(* rounded to the nearest 1/Q unit; the 1e-8 added to the speed before the *)
(* division is below that resolution.                                      *)
(***************************************************************************)
EXTENDS Integers, Sequences, FiniteSets, TLC

\* ---------------------------------------------------------------- bounds
\* Sub-cell resolution: coordinates are multiples of 1/Q.
Q == 2
\* Largest width and height of the arbitrary grids of the sampler checks.
MaxDim == 3

\* --------------------------------------------------------------- helpers
Min(a, b) == IF a < b THEN a ELSE b
Max(a, b) == IF a > b THEN a ELSE b

\* p5's constrain(n, low, high): Math.max(Math.min(n, high), low).
constrain(n, low, high) == Max(Min(n, high), low)

\* Math.floor of a coordinate given in 1/Q units, as a whole number.
Floor(x) == x \div Q

RECURSIVE SqrtFrom(_, _)
SqrtFrom(n, r) == IF (r + 1) * (r + 1) > n THEN r ELSE SqrtFrom(n, r + 1)
\* Math.sqrt of a non-negative integer, rounded down to a whole number.
ISqrt(n) == SqrtFrom(n, 0)

\* ------------------------------------------------------------ input grids
\* Denominator of the depth values stored in a grid: a stored depth n is n/DepthDen.
DepthDen == 4

\* Cell values of the named test grids.  "index" gives every cell its own
\* values; the others are the flows the integrator is traced on.
CellU(p, x, y, w) ==
    CASE p = "index" -> 1 + x + w * y
      [] p = "east"  -> 1
      [] p = "west"  -> -1
      [] p = "south" -> 0
      [] p = "diag"  -> 1
      [] p = "swirl" -> IF y = 0 THEN 1 ELSE -1
      [] OTHER       -> 0

CellV(p, x, y, w) ==
    CASE p = "index" -> 2 * y - x
      [] p = "south" -> 1
      [] p = "diag"  -> 1
      [] OTHER       -> 0

CellDepth(p, x, y, w) == (x + w * y) % (DepthDen + 1)

\* The object JSON.parse returns for a well-formed grid file: width, height
\* and three height x width arrays indexed [row][col].
GridData(p, w, h) ==
    [width  |-> w,
     height |-> h,
     U      |-> [y \in 0..(h - 1) |-> [x \in 0..(w - 1) |-> CellU(p, x, y, w)]],
     V      |-> [y \in 0..(h - 1) |-> [x \in 0..(w - 1) |-> CellV(p, x, y, w)]],
     depth  |-> [y \in 0..(h - 1) |-> [x \in 0..(w - 1) |-> CellDepth(p, x, y, w)]]]

\* A grid file whose last row of U is empty: every array has its rows, but
\* the cells of that row of U are missing.
RaggedData(p, w, h) == [GridData(p, w, h) EXCEPT !.U[h - 1] = <<>>]

\* The object JSON.parse returns for {"width": w, "height": h}: the arrays
\* are missing (undefined), modelled as arrays without rows.
NoArrays(w, h) ==
    [width |-> w, height |-> h, U |-> <<>>, V |-> <<>>, depth |-> <<>>]

\* -------------------------------------------------------------- FlowField
\* new FlowField(jsonData) throws a TypeError when the speed loop reads
\* this.U[y][x] or this.V[y][x] from a row that does not exist.
FlowFieldThrows(d) ==
    \E y \in 0..(d.height - 1) : \E x \in 0..(d.width - 1) :
        y \notin DOMAIN d.U \/ y \notin DOMAIN d.V

\* |u| + |v| in place of the Euclidean magnitude, in 1/Q units.
CellSpeedTaxicab(u, v) ==
    ((IF u < 0 THEN -u ELSE u) + (IF v < 0 THEN -v ELSE v)) * Q

\* Math.sqrt(u * u + v * v) of two integer cell values, in 1/Q units.
CellSpeed(u, v) == ISqrt((u * u + v * v) * Q * Q)

SetMax(S) == CHOOSE m \in S : \A n \in S : n <= m

\* The FlowField object the constructor builds: the arrays of the input
\* (by reference), the derived speed grid and its maximum (0 when empty).
\* Where a row of U or V is too short the cell read is undefined and the
\* speed stored is NaN, which never exceeds maxSpeed; a NaN cell is
\* modelled as a cell missing from its row, so that it reads as NaN too.
FlowField(d) ==
    LET cols(y) == {x \in 0..(d.width - 1) : x \in DOMAIN d.U[y] /\ x \in DOMAIN d.V[y]}
        speed == [y \in 0..(d.height - 1) |->
                    [x \in cols(y) |-> CellSpeed(d.U[y][x], d.V[y][x])]]
    IN [kind     |-> "FlowField",
        width    |-> d.width,
        height   |-> d.height,
        depth    |-> d.depth,
        U        |-> d.U,
        V        |-> d.V,
        speed    |-> speed,
        maxSpeed |-> SetMax({0} \cup UNION {{speed[y][x] : x \in cols(y)} :
                                               y \in 0..(d.height - 1)})]

\* The bilinear read without the second clamp (the cell origin is floor(x),
\* floor(y) as it comes): on the last row or column the 2 x 2 neighbourhood
\* leaves the grid.
BilinearUnclamped(A, width, height, xq, yq) ==
    LET x  == constrain(xq, 0, (width - 1) * Q)
        y  == constrain(yq, 0, (height - 1) * Q)
        ix == Floor(x)
        iy == Floor(y)
        fx == x - ix * Q
        fy == y - iy * Q
        cells == {<<iy, ix>>, <<iy, ix + 1>>, <<iy + 1, ix>>, <<iy + 1, ix + 1>>}
    IN  IF \E c \in cells : c[1] \notin DOMAIN A
        THEN [status |-> "TypeError", value |-> 0, cells |-> cells]
        ELSE IF \E c \in cells : c[2] \notin DOMAIN A[c[1]]
        THEN [status |-> "NaN", value |-> 0, cells |-> cells]
        ELSE [status |-> "ok",
              value  |-> (Q - fx) * (Q - fy) * A[iy][ix]
                         + fx * (Q - fy) * A[iy][ix + 1]
                         + (Q - fx) * fy * A[iy + 1][ix]
                         + fx * fy * A[iy + 1][ix + 1],
              cells  |-> cells]

\* The bilinear read shared by getGradient, getDepth and getSpeed: clamp the
\* point, clamp the cell origin, blend the 2 x 2 neighbourhood.  The value
\* is in 1/(Q*Q) of the array's unit.  Reading a column past a row's end
\* gives undefined and a NaN result; reading a row past the array's end
\* throws a TypeError.
Bilinear(A, width, height, xq, yq) ==
    LET x  == constrain(xq, 0, (width - 1) * Q)
        y  == constrain(yq, 0, (height - 1) * Q)
        ix == constrain(Floor(x), 0, width - 2)
        iy == constrain(Floor(y), 0, height - 2)
        fx == x - ix * Q
        fy == y - iy * Q
        cells == {<<iy, ix>>, <<iy, ix + 1>>, <<iy + 1, ix>>, <<iy + 1, ix + 1>>}
    IN  IF \E c \in cells : c[1] \notin DOMAIN A
        THEN [status |-> "TypeError", value |-> 0, cells |-> cells]
        ELSE IF \E c \in cells : c[2] \notin DOMAIN A[c[1]]
        THEN [status |-> "NaN", value |-> 0, cells |-> cells]
        ELSE [status |-> "ok",
              value  |-> (Q - fx) * (Q - fy) * A[iy][ix]
                         + fx * (Q - fy) * A[iy][ix + 1]
                         + (Q - fx) * fy * A[iy + 1][ix]
                         + fx * fy * A[iy + 1][ix + 1],
              cells  |-> cells]

\* The worse of two read outcomes: a throw wins over a NaN, a NaN over a value.
Worse(a, b) ==
    IF "TypeError" \in {a, b} THEN "TypeError"
    ELSE IF "NaN" \in {a, b} THEN "NaN" ELSE "ok"

getGradient(f, x, y) ==
    LET u == Bilinear(f.U, f.width, f.height, x, y)
        v == Bilinear(f.V, f.width, f.height, x, y)
    IN [status |-> Worse(u.status, v.status), u |-> u.value, v |-> v.value,
        cells |-> u.cells \cup v.cells]

getDepth(f, x, y) == Bilinear(f.depth, f.width, f.height, x, y)

getSpeed(f, x, y) == Bilinear(f.speed, f.width, f.height, x, y)

\* ------------------------------------------------------------- integrator
\* Default minSpeed of integrateStreamline, 0.001, as MinSpeedNum/MinSpeedDen.
MinSpeedNum == 1
MinSpeedDen == 1000
DefaultMinSpeed == [num |-> MinSpeedNum, den |-> MinSpeedDen]

\* speed < minSpeed for a gradient (u, v) in 1/(Q*Q) units, compared on the
\* squares: sqrt(u*u + v*v) / (Q*Q) < num / den.
TooSlow(u, v, minSpeed) ==
    (u * u + v * v) * minSpeed.den * minSpeed.den
        < minSpeed.num * minSpeed.num * Q * Q * Q * Q

\* |u / speed * stepSize| rounded to the nearest 1/Q unit, from the squares:
\* the d with (d - 1/2) <= stepSize * |u| / sqrt(u*u + v*v) < (d + 1/2).
DispMag(u, v, stepSize) ==
    LET s2 == u * u + v * v
        n  == 4 * stepSize * stepSize * u * u
    IN CHOOSE d \in 0..stepSize :
          /\ (d = 0 \/ (2 * d - 1) * (2 * d - 1) * s2 <= n)
          /\ n < (2 * d + 1) * (2 * d + 1) * s2

\* u / (speed + 1e-8) * stepSize, in 1/Q units.
Disp(u, v, stepSize) ==
    IF u < 0 THEN -DispMag(u, v, stepSize) ELSE DispMag(u, v, stepSize)

\* The locals of integrateStreamline before the loop.
TraceStart(x0, y0) ==
    [pc      |-> "loop",
     points  |-> <<[x |-> x0, y |-> y0]>>,
     x       |-> x0,
     y       |-> y0,
     visited |-> {},
     i       |-> 0,
     nan     |-> FALSE]

\* The point pushed after a step from a NaN gradient: {x: NaN, y: NaN}.
NaNPoint == [nan |-> TRUE]

\* The loop test with the bound included: one pass more than the code makes.
LoopTestInclusive(i, maxLength) == i <= maxLength

\* The for loop's test.
LoopTest(i, maxLength) == i < maxLength

\* The bounds check that opens the loop body.
OutOfBounds(f, x, y) ==
    x < 0 \/ x >= (f.width - 1) * Q \/ y < 0 \/ y >= (f.height - 1) * Q

\* The visited test left out: no cell ever counts as visited.
VisitedNever(visited, key) == FALSE

\* visited.has(key).
Visited(visited, key) == key \in visited

\* One pass through the for loop: the loop test, then the body.  pc becomes
\* "exit" when the loop ends (test false, or a break) and "threw" when
\* flowField.getGradient throws (it is not a function on a raw JSON object,
\* and a row read outside the arrays throws inside it).  A NaN gradient
\* passes the speed test (NaN < minSpeed is false) and makes x and y NaN;
\* on the next pass NaN passes the bounds test and the visited test, and
\* getGradient(NaN, NaN) throws on this.U[NaN][NaN].
LoopPass(f, t, stepSize, maxLength, minSpeed) ==
    LET key == <<Floor(t.x), Floor(t.y)>>
        seen == [t EXCEPT !.visited = t.visited \cup {key}]
    IN  IF ~LoopTest(t.i, maxLength) THEN [t EXCEPT !.pc = "exit"]
        ELSE IF t.nan THEN [t EXCEPT !.pc = "threw"]
        ELSE IF OutOfBounds(f, t.x, t.y) THEN [t EXCEPT !.pc = "exit"]
        ELSE IF Visited(t.visited, key) THEN [t EXCEPT !.pc = "exit"]
        ELSE IF f.kind # "FlowField" THEN [seen EXCEPT !.pc = "threw"]
        ELSE LET grad == getGradient(f, t.x, t.y)
             IN  IF grad.status = "TypeError" THEN [seen EXCEPT !.pc = "threw"]
                 ELSE IF grad.status = "NaN"
                 THEN [seen EXCEPT !.nan = TRUE,
                                   !.points = Append(t.points, NaNPoint),
                                   !.i = t.i + 1]
                 ELSE IF TooSlow(grad.u, grad.v, minSpeed)
                 THEN [seen EXCEPT !.pc = "exit"]
                 ELSE LET nx == t.x + Disp(grad.u, grad.v, stepSize)
                          ny == t.y + Disp(grad.v, grad.u, stepSize)
                      IN [seen EXCEPT !.x = nx,
                                      !.y = ny,
                                      !.points = Append(t.points, [x |-> nx, y |-> ny]),
                                      !.i = t.i + 1]

\* Minimum number of points of a returned streamline is one more than this.
MinPoints == 10

\* The return statement with >= in place of >: a 10-point path is returned.
TraceResultAtLeast(points) == IF Len(points) >= MinPoints THEN points ELSE <<>>

\* The return statement: the path if it has more than 10 points, else [].
TraceResult(points) == IF Len(points) > MinPoints THEN points ELSE <<>>

RECURSIVE RunLoop(_, _, _, _, _)
RunLoop(f, t, stepSize, maxLength, minSpeed) ==
    IF t.pc # "loop" THEN t
    ELSE RunLoop(f, LoopPass(f, t, stepSize, maxLength, minSpeed),
                 stepSize, maxLength, minSpeed)

\* integrateStreamline(x0, y0, flowField, stepSize, maxLength, minSpeed):
\* whether it threw, and the array it returned.
integrateStreamline(x0, y0, f, stepSize, maxLength, minSpeed) ==
    LET t == RunLoop(f, TraceStart(x0, y0), stepSize, maxLength, minSpeed)
    IN [threw  |-> t.pc = "threw",
        points |-> IF t.pc = "threw" THEN <<>> ELSE TraceResult(t.points)]

\* ----------------------------------------------------------------- colours
\* A depth handed to depthToColor is n/DepthDen; a transformed depth and the
\* blend factor of lerp are in 1/TDen units, and so a colour channel is in
\* 1/TDen of a channel unit.
TDen == DepthDen * DepthDen

\* The scheme table of the later colors.js: ocean, sunset and white.
ColorSchemes ==
    [ocean  |-> [shallow |-> <<174, 225, 165>>, deep |-> <<10, 74, 122>>,
                 useAlpha |-> FALSE],
     sunset |-> [shallow |-> <<255, 200, 150>>, deep |-> <<100, 50, 150>>,
                 useAlpha |-> FALSE],
     white  |-> [shallow |-> <<255, 255, 255>>, deep |-> <<255, 255, 255>>,
                 useAlpha |-> TRUE]]

\* Property names every object literal inherits from Object.prototype.
ObjectPrototypeKeys == {"constructor", "toString", "hasOwnProperty"}

\* ColorSchemes[scheme]: an own entry, an inherited member of
\* Object.prototype (truthy, without deep or shallow), or undefined.
SchemeLookup(scheme) ==
    IF scheme \in DOMAIN ColorSchemes
    THEN [kind |-> "scheme", colors |-> ColorSchemes[scheme]]
    ELSE IF scheme \in ObjectPrototypeKeys
    THEN [kind |-> "inherited"]
    ELSE [kind |-> "undefined"]

\* transformDepth(depth, 1.5) = 1 - (1 - depth)^1.5, in 1/TDen units:
\* (1 - n/DepthDen)^1.5 * TDen = sqrt((DepthDen - n)^3 * DepthDen).
\* Math.pow of a negative base with exponent 1.5 is NaN.
transformDepth(n) ==
    LET inv == DepthDen - n
    IN IF inv < 0 THEN [nan |-> TRUE, t |-> 0]
       ELSE [nan |-> FALSE, t |-> TDen - ISqrt(inv * inv * inv * DepthDen)]

\* The blend factor depthToColor uses: the transformed depth when
\* emphasizeDeep, else the depth itself.
BlendFactor(n, emphasizeDeep) ==
    IF emphasizeDeep THEN transformDepth(n) ELSE [nan |-> FALSE, t |-> n * DepthDen]

\* lerp with its end points exchanged in the difference: it runs away from
\* stop instead of towards it.
lerpReversed(start, stop, amt) == amt * (start - stop) + start * TDen

\* p5's lerp(start, stop, amt) = amt * (stop - start) + start, in 1/TDen units.
lerp(start, stop, amt) == amt * (stop - start) + start * TDen

\* The arguments of the call color(r, g, b[, a]) that builds the result.
Color(r, g, b, a) == [status |-> "ok", r |-> r, g |-> g, b |-> b, a |-> a]

\* The fallback colour, color(128, 128, 128).
GrayLevel == 128
Gray == Color(GrayLevel * TDen, GrayLevel * TDen, GrayLevel * TDen, 255 * TDen)

\* depthToColor(depth, scheme, emphasizeDeep) of the later colors.js.
depthToColor(n, scheme, emphasizeDeep) ==
    LET td     == BlendFactor(n, emphasizeDeep)
        lookup == SchemeLookup(scheme)
    IN  IF lookup.kind = "undefined" THEN Gray
        ELSE IF lookup.kind = "inherited"
        THEN [status |-> "TypeError", r |-> 0, g |-> 0, b |-> 0, a |-> 0]
        ELSE IF td.nan
        THEN [status |-> "NaN", r |-> 0, g |-> 0, b |-> 0, a |-> 0]
        ELSE IF scheme = "white" /\ lookup.colors.useAlpha
        THEN Color(255 * TDen, 255 * TDen, 255 * TDen, 255 * td.t)
        ELSE Color(lerp(lookup.colors.deep[1], lookup.colors.shallow[1], td.t),
                   lerp(lookup.colors.deep[2], lookup.colors.shallow[2], td.t),
                   lerp(lookup.colors.deep[3], lookup.colors.shallow[3], td.t),
                   255 * TDen)

\* --------------------------------------------------------------- smoothing
\* The spline parameter t is counted in 1/TUnits: the steps 0.2, 0.15 and
\* 0.1 of smoothStreamline are 4, 3 and 2 of these.
TUnits == 20

\* A smoothed coordinate is an integer count of 1/(SmoothDen * Q):
\* 0.5 * (cubic in t) with t in 1/TUnits.
SmoothDen == 2 * TUnits * TUnits * TUnits

\* catmullRom(p0, p1, p2, p3, t) with t = k/TUnits, times SmoothDen.
catmullRom(p0, p1, p2, p3, k) ==
    2 * p1 * TUnits * TUnits * TUnits
    + (p2 - p0) * k * TUnits * TUnits
    + (2 * p0 - 5 * p1 + 4 * p2 - p3) * k * k * TUnits
    + (3 * p1 - p0 - 3 * p2 + p3) * k * k * k

\* The adaptive step for a segment (dx, dy), in 1/TUnits: 0.2 below length
\* 5, 0.15 below length 20, else 0.1; lengths compared on their squares.
SmoothStep(dx, dy) ==
    IF dx * dx + dy * dy < 25 * Q * Q THEN 4
    ELSE IF dx * dx + dy * dy < 400 * Q * Q THEN 3 ELSE 2

\* How often the loop "for (t = 0; t < 1; t += step)" runs.  With 0.2 the
\* running sum reaches 1.0 after five additions; with 0.15 it passes 1 on
\* the seventh; with 0.1 the tenth sum is 0.9999999999999999 in binary
\* floating point, still below 1, so an eleventh sample is taken at a t
\* that rounds to 1 here.
SampleCount(step) == IF step = 4 THEN 5 ELSE IF step = 3 THEN 7 ELSE 11

\* The samples smoothStreamline pushes for segment i (0-based) of points.
SegmentSamples(points, i) ==
    LET n  == Len(points)
        p1 == points[i + 1]
        p2 == points[i + 2]
        p0 == IF i > 0 THEN points[i] ELSE p1
        p3 == IF i < n - 2 THEN points[i + 3] ELSE p2
        step == SmoothStep(p2.x - p1.x, p2.y - p1.y)
    IN [j \in 1..SampleCount(step) |->
           [x |-> catmullRom(p0.x, p1.x, p2.x, p3.x, (j - 1) * step),
            y |-> catmullRom(p0.y, p1.y, p2.y, p3.y, (j - 1) * step)]]

RECURSIVE SmoothFrom(_, _, _)
\* The outer loop of smoothStreamline from segment i on.
SmoothFrom(points, i, smoothed) ==
    IF i >= Len(points) - 1 THEN smoothed
    ELSE SmoothFrom(points, i + 1, smoothed \o SegmentSamples(points, i))

\* smoothStreamline with the early return taken only for an empty array.
smoothStreamlineEmptyOnly(points) ==
    IF Len(points) < 1 THEN [den |-> 1, points |-> points]
    ELSE [den |-> SmoothDen, points |-> SmoothFrom(points, 0, <<>>)]

\* smoothStreamline(points): the array it returns and the unit of its
\* coordinates, 1/(den * Q): the argument itself when it has fewer than 2
\* points, else the new array of samples.
smoothStreamline(points) ==
    IF Len(points) < 2 THEN [den |-> 1, points |-> points]
    ELSE [den |-> SmoothDen, points |-> SmoothFrom(points, 0, <<>>)]

\* ----------------------------------------------------------------- drawing
\* The colour drawStreamline strokes a segment with, from the depth at the
\* segment's midpoint: depthToColor(depth, colorScheme), the third parameter
\* at its default (true).  renderFlowField passes its options object
\* {depthPower, invertDepth} as a sixth argument; drawStreamline declares
\* five parameters and never reads it.
StrokeColor(depth, colorScheme, options) == depthToColor(depth, colorScheme, TRUE)

\* ------------------------------------------------------------------ export
\* Number.prototype.toFixed(2) of a coordinate of xq/Q: the decimal text
\* with two places, as a count of hundredths, rounded to nearest.
ToFixed2(xq) ==
    IF xq < 0 THEN -((-xq * 200 + Q) \div (2 * Q))
    ELSE (xq * 200 + Q) \div (2 * Q)

\* The path data exportSVGForLaser builds for one streamline: "M x y" for
\* the first point, then " L x y" for each further one.
PathData(points) ==
    [k \in 1..Len(points) |->
        [cmd |-> IF k = 1 THEN "M" ELSE "L",
         x   |-> ToFixed2(points[k].x),
         y   |-> ToFixed2(points[k].y)]]

\* An export loop without its skip test: every streamline gets a path.
ExportSkipsNone(points) == FALSE

\* The skip test of the export loop.
ExportSkips(points) == Len(points) < 2

RECURSIVE ExportFrom(_, _, _)
\* The export loop from streamline n on, with the paths written so far.
ExportFrom(lines, n, paths) ==
    IF n > Len(lines) THEN paths
    ELSE ExportFrom(lines, n + 1,
                    IF ExportSkips(lines[n]) THEN paths
                    ELSE Append(paths, PathData(lines[n])))

\* exportSVGForLaser: the <path> elements of the downloaded file, in order
\* (the fixed header, group and footer around them are left out).
exportSVGForLaser(lines) == ExportFrom(lines, 1, <<>>)

\* ------------------------------------------------------- generation pass
\* Number of values random(lo, hi) can take: lo + k * (hi - lo) / JitterLevels
\* for k in 0..JitterLevels-1 (the upper end is excluded, as in p5's random).
JitterLevels == 2

\* gridSize = Math.floor(Math.sqrt(params.density * 100)); the density is
\* held in hundredths.
GridSize(density) == ISqrt(density)

\* i * step + random(-step / 2, step / 2) for seed-grid index i, in units of
\* step / (2 * JitterLevels): the cell origin i * step is 2 * i * JitterLevels,
\* the k-th value of random is -JitterLevels + 2 * k.
SeedOffset(i, k) == 2 * i * JitterLevels + (2 * k - JitterLevels)

\* A seed coordinate of seed-grid index i along an axis of the given extent:
\* i * step + random(-step / 2, step / 2) with step = extent / gridSize,
\* taken down to the 1/Q grid, then constrain(., 0, extent - 1).
SeedCoord(i, k, extent, gridSize) ==
    constrain((extent * Q * SeedOffset(i, k)) \div (2 * JitterLevels * gridSize),
              0, (extent - 1) * Q)

\* The store test without its length condition: every result is pushed,
\* the empty ones too.
KeepStreamlineAny(points) == Len(points) >= 0

\* The test that decides whether a traced path is stored.
KeepStreamline(points) == Len(points) > MinPoints

\* What integrateStreamline can return for seed-grid cell (i, j), over the
\* values the two random() calls can take.
SeedResults(f, p, gridSize, i, j) ==
    {integrateStreamline(SeedCoord(i, kx, f.width, gridSize),
                         SeedCoord(j, ky, f.height, gridSize),
                         f, p.stepSize, p.maxLength, DefaultMinSpeed) :
        kx \in 0..(JitterLevels - 1), ky \in 0..(JitterLevels - 1)}

\* The double seed loop from its n-th cell on (i outer, j inner), with the
\* paths already pushed: every way it can end.  A throw inside
\* integrateStreamline ends the callback with what was pushed so far.
RECURSIVE SeedLoop(_, _, _, _, _)
SeedLoop(f, p, gridSize, n, pushed) ==
    IF n >= gridSize * gridSize THEN {[threw |-> FALSE, lines |-> pushed]}
    ELSE UNION {
        IF r.threw THEN {[threw |-> TRUE, lines |-> pushed]}
        ELSE SeedLoop(f, p, gridSize, n + 1,
                      IF KeepStreamline(r.points) THEN Append(pushed, r.points)
                      ELSE pushed) :
        r \in SeedResults(f, p, gridSize, n \div gridSize, n % gridSize)}

\* The body of generateStreamlines after "streamlines = []": the possible
\* contents of streamlines when it ends, and whether it ended by a throw
\* (flowField is null: reading flowField.width throws).
GeneratePass(f, p) ==
    IF f.kind = "null" THEN {[threw |-> TRUE, lines |-> <<>>]}
    ELSE SeedLoop(f, p, GridSize(p.density), 0, <<>>)

\* ------------------------------------------------------------------ state
VARIABLES
    flowField,    \* the global flowField: null, a parsed JSON object, or a FlowField
    streamlines,  \* the global streamlines: a sequence of point sequences
    params,       \* the global params
    ui,           \* the values the page's controls currently show
    pending,      \* generation callbacks scheduled by setTimeout and not yet run
    loading,      \* whether #loading carries the class "show"
    alertMsg,     \* the alert the latest handler raised, "none" if it raised none
    canvas,       \* what renderFlowField last drew
    event,        \* the latest handler that ran; for a file load, whether the
                  \* file held a well-formed grid, else whether it ran through
    tr,           \* one call of integrateStreamline, stepped through its loop
    probe,        \* the latest FlowField construction or query and its outcome
    col,          \* the latest two depthToColor calls and their results
    emitted,      \* what the latest handler or call put out: a download, a stroke
                  \* colour, a smoothed path, a seed; [op |-> "none"] if nothing
    since,        \* history: the latest of the events "successful load", "reset"
                  \* and "Generate click"; "setup" before the first of them
    generateTimer, \* part_000: ms until the debounce timer fires, NoTimer if none is set
    passTimers,   \* part_000: ms until each scheduled generation callback runs
    burst         \* history of part_000's slider events: whether there was one,
                  \* the ms since the latest, the calls of generateStreamlines
                  \* since the latest, and params as they were at the latest call

debounceVars == <<generateTimer, passTimers, burst>>
appVars == <<streamlines, params, ui, pending, loading, alertMsg, canvas, event,
             since, generateTimer, passTimers, burst>>
NoOutput == [op |-> "none"]
\* let generateTimer = null.
NoTimer == -1
\* No slider event yet.
NoBurst == [events |-> FALSE, elapsed |-> 0, calls |-> 0, requested |-> <<>>]
vars == <<flowField, streamlines, params, ui, pending, loading, alertMsg,
          canvas, event, tr, probe, col, emitted, since,
          generateTimer, passTimers, burst>>

Null == [kind |-> "null"]
\* A parsed JSON object that is not (yet) a FlowField.
Raw(d) == [kind |-> "raw", width |-> d.width, height |-> d.height,
           depth |-> d.depth, U |-> d.U, V |-> d.V]

\* ----------------------------------------------------------- model inputs
\* Width and height of the grid the integrator is traced on.
GridW == 12
GridH == 2
\* Most generation callbacks scheduled at once.
MaxPending == 2

\* params as the sketch declares it (density 4.5 in hundredths, stepSize 2.0
\* in 1/Q units).
DefaultDensity == 450
DefaultMaxLength == 1000
DefaultParams ==
    [density |-> DefaultDensity, stepSize |-> 2 * Q, maxLength |-> DefaultMaxLength,
     invertDepth |-> FALSE]

\* The values the generation controls take: density 0.01 and 0.04 (a seed
\* grid of 1 x 1 and of 2 x 2), stepSize 1.0, maxLength 15.  Of the
\* display controls (line width, colour scheme, depth power, invert depth),
\* which updateParamsFromUI reads the same way, the invert-depth checkbox
\* stands for all.
DensityChoices == {1, 4}
StepChoices == {Q}
LengthChoices == {15}
UIStates ==
    {[density |-> d, stepSize |-> s, maxLength |-> m, invertDepth |-> inv] :
        d \in DensityChoices, s \in StepChoices, m \in LengthChoices,
        inv \in BOOLEAN}

FlowPatterns == {"east", "west", "south", "diag", "swirl", "zero"}

\* The files the user can select: text that is not JSON, the text "null",
\* an object without arrays, a 1 x 1 grid, a grid one row taller than the
\* others whose last row of U is empty, and two well-formed grids.
Files == {"garbage", "null", "noarrays", "onecell", "ragged", "east", "swirl"}

\* What JSON.parse makes of a file's text: a throw, null, or an object.
FileContent(file) ==
    CASE file = "garbage"  -> [kind |-> "garbage"]
      [] file = "null"     -> [kind |-> "null"]
      [] file = "noarrays" -> [kind |-> "json", data |-> NoArrays(3, 3)]
      [] file = "onecell"  -> [kind |-> "json", data |-> GridData("index", 1, 1)]
      [] file = "ragged"   -> [kind |-> "json",
                               data |-> RaggedData("east", GridW, GridH + 1)]
      [] OTHER             -> [kind |-> "json", data |-> GridData(file, GridW, GridH)]

\* A file whose text parses to an object with width, height and three
\* height x width arrays.
WellFormed(file) ==
    LET c == FileContent(file)
    IN /\ c.kind = "json"
       /\ \A A \in {c.data.U, c.data.V, c.data.depth} :
            /\ DOMAIN A = 0..(c.data.height - 1)
            /\ \A y \in DOMAIN A : DOMAIN A[y] = 0..(c.data.width - 1)

\* ------------------------------------------------------- the sketch (page)
\* renderFlowField: the message when there is nothing to draw, else every
\* stored streamline (the canvas records how many were drawn); drawStreamline
\* throws on a flowField without getDepth.
renderFlowField(f, lines) ==
    IF f.kind = "null" \/ Len(lines) = 0 THEN [kind |-> "message", drawn |-> 0]
    ELSE IF f.kind # "FlowField" THEN [kind |-> "error", drawn |-> 0]
    ELSE [kind |-> "lines", drawn |-> Len(lines)]

\* What initializeFlowField makes of each file's object, tabulated: the
\* FlowField, or the object itself when the constructor throws.
Constructed ==
    [file \in {f \in Files : FileContent(f).kind = "json"} |->
        LET d == FileContent(file).data
        IN IF FlowFieldThrows(d) THEN Raw(d) ELSE FlowField(d)]

\* GeneratePass tabulated over the values flowField and the controls take.
PassTable ==
    [f \in {Null} \cup {Constructed[file] : file \in DOMAIN Constructed},
     p \in UIStates |-> GeneratePass(f, p)]

PassOutcomes(f, p) == PassTable[f, p]

Init ==
    /\ flowField = Null
    /\ streamlines = <<>>
    /\ params = DefaultParams
    /\ ui \in UIStates
    /\ pending = 0
    /\ loading = FALSE
    /\ alertMsg = "none"
    /\ canvas = renderFlowField(Null, <<>>)
    /\ event = [name |-> "setup", ok |-> TRUE]
    /\ since = "setup"
    /\ generateTimer = NoTimer
    /\ passTimers = <<>>
    /\ burst = NoBurst
    /\ tr = [pc |-> "idle"]
    /\ probe = [op |-> "none"]
    /\ col = [last |-> [op |-> "none"], prev |-> [op |-> "none"]]
    /\ emitted = NoOutput

\* The control changes with params as the only thing they would write:
\* the changed value is stored at once, as by a listener that reads the
\* controls on every input.
ChangeControlLive ==
    /\ UNCHANGED debounceVars
    /\ \E c \in {"density", "stepSize", "maxLength", "invertDepth"} :
         \E v \in (CASE c = "density" -> DensityChoices
                     [] c = "stepSize" -> StepChoices
                     [] c = "maxLength" -> LengthChoices
                     [] OTHER -> BOOLEAN) :
            /\ ui[c] # v
            /\ ui' = [ui EXCEPT ![c] = v]
            /\ params' = [params EXCEPT ![c] = v]
            /\ event' = [name |-> "input", ok |-> TRUE]
    /\ alertMsg' = "none"
    /\ emitted' = NoOutput
    /\ UNCHANGED <<flowField, streamlines, pending, loading, canvas,
                   tr, probe, col, since>>

\* A slider, select or checkbox changes: the input listeners only update
\* the value display, nothing of the sketch's state.
ChangeControl ==
    /\ UNCHANGED debounceVars
    /\ \E c \in {"density", "stepSize", "maxLength", "invertDepth"} :
         \E v \in (CASE c = "density" -> DensityChoices
                     [] c = "stepSize" -> StepChoices
                     [] c = "maxLength" -> LengthChoices
                     [] OTHER -> BOOLEAN) :
            /\ ui[c] # v
            /\ ui' = [ui EXCEPT ![c] = v]
            /\ event' = [name |-> "input", ok |-> TRUE]
    /\ alertMsg' = "none"
    /\ emitted' = NoOutput
    /\ UNCHANGED <<flowField, streamlines, params, pending, loading, canvas,
                   tr, probe, col, since>>

\* updateParamsFromUI.
updateParamsFromUI(p, u) ==
    [p EXCEPT !.density = u.density, !.stepSize = u.stepSize,
              !.maxLength = u.maxLength, !.invertDepth = u.invertDepth]

\* The Generate button: alert without a flowField, else read the controls
\* and call generateStreamlines, which shows the loading indicator and
\* schedules the generation callback.
ClickGenerate ==
    /\ UNCHANGED debounceVars
    /\ event' = [name |-> "generate", ok |-> flowField.kind # "null"]
    /\ IF flowField.kind = "null"
       THEN /\ alertMsg' = "Please load a flow field JSON file first."
            /\ UNCHANGED <<params, loading, pending>>
       ELSE /\ pending < MaxPending
            /\ alertMsg' = "none"
            /\ params' = updateParamsFromUI(params, ui)
            /\ loading' = TRUE
            /\ pending' = pending + 1
    /\ emitted' = NoOutput
    /\ since' = "generate"
    /\ UNCHANGED <<flowField, streamlines, ui, canvas, tr, probe, col>>

\* The generation callback, were the pass to write into the field it
\* traces on (here: it resets the field's maxSpeed).
GenerationCallbackWriting ==
    /\ UNCHANGED debounceVars
    /\ pending > 0
    /\ pending' = pending - 1
    /\ \E out \in PassOutcomes(flowField, params) :
          /\ streamlines' = out.lines
          /\ loading' = IF out.threw THEN loading ELSE FALSE
          /\ canvas' = IF out.threw THEN canvas
                       ELSE renderFlowField(flowField, out.lines)
          /\ event' = [name |-> "timeout", ok |-> ~out.threw]
    /\ alertMsg' = "none"
    /\ emitted' = NoOutput
    /\ flowField' = IF flowField.kind = "FlowField"
                    THEN [flowField EXCEPT !.maxSpeed = 0] ELSE flowField
    /\ UNCHANGED <<params, ui, tr, probe, col, since>>

\* The callback generateStreamlines handed to setTimeout: clear streamlines,
\* run the seed loop, hide the loading indicator, render.  When the loop
\* throws, the callback ends there: the indicator stays and nothing is drawn.
GenerationCallback ==
    /\ UNCHANGED debounceVars
    /\ pending > 0
    /\ pending' = pending - 1
    /\ \E out \in PassOutcomes(flowField, params) :
          /\ streamlines' = out.lines
          /\ loading' = IF out.threw THEN loading ELSE FALSE
          /\ canvas' = IF out.threw THEN canvas
                       ELSE renderFlowField(flowField, out.lines)
          /\ event' = [name |-> "timeout", ok |-> ~out.threw]
    /\ alertMsg' = "none"
    /\ emitted' = NoOutput
    /\ UNCHANGED <<flowField, params, ui, tr, probe, col, since>>

\* resetCanvas.
ClickReset ==
    /\ UNCHANGED debounceVars
    /\ streamlines' = <<>>
    /\ canvas' = renderFlowField(flowField, <<>>)
    /\ event' = [name |-> "reset", ok |-> TRUE]
    /\ alertMsg' = "none"
    /\ emitted' = NoOutput
    /\ since' = "reset"
    /\ UNCHANGED <<flowField, params, ui, pending, loading, tr, probe, col>>

\* reader.onload of loadDataFile: JSON.parse into flowField, then
\* initializeFlowField; any throw is caught and alerted.
FileLoaded ==
    \E file \in Files :
        LET c == FileContent(file)
        IN  /\ event' = [name |-> "load", ok |-> WellFormed(file)]
            /\ UNCHANGED debounceVars
            /\ emitted' = NoOutput
            /\ UNCHANGED <<params, ui, pending, loading, tr, probe, col>>
            /\ CASE c.kind = "garbage" ->
                      /\ alertMsg' = "Error loading file. Please check the file format."
                      /\ UNCHANGED <<flowField, streamlines, canvas, since>>
                 [] c.kind = "null" ->
                      /\ flowField' = Null
                      /\ alertMsg' = "none"
                      /\ UNCHANGED <<streamlines, canvas, since>>
                 [] OTHER ->
                      IF Constructed[file].kind = "raw"
                      THEN /\ flowField' = Constructed[file]
                           /\ alertMsg' = "Error loading file. Please check the file format."
                           /\ UNCHANGED <<streamlines, canvas, since>>
                      ELSE /\ flowField' = Constructed[file]
                           /\ streamlines' = <<>>
                           /\ canvas' = renderFlowField(Constructed[file], <<>>)
                           /\ alertMsg' = "none"
                           /\ since' = "load"

\* The Export SVG button: alert when there is nothing to export, else
\* download the file exportSVGForLaser builds from streamlines.
ClickExport ==
    /\ UNCHANGED debounceVars
    /\ event' = [name |-> "export",
                 ok |-> flowField.kind # "null" /\ Len(streamlines) > 0]
    /\ IF flowField.kind = "null" \/ Len(streamlines) = 0
       THEN /\ alertMsg' = "Please generate a flow field first."
            /\ emitted' = NoOutput
       ELSE /\ alertMsg' = "none"
            /\ emitted' = [op |-> "export", lines |-> streamlines,
                           paths |-> exportSVGForLaser(streamlines)]
    /\ UNCHANGED <<flowField, streamlines, params, ui, pending, loading, canvas,
                   tr, probe, col, since>>

Next ==
    \/ ChangeControl
    \/ ClickGenerate
    \/ GenerationCallback
    \/ ClickReset
    \/ FileLoaded
    \/ ClickExport

Spec == Init /\ [][Next]_vars

\* ------------------------------------------------- the sampler on its own
\* The grids a FlowField is constructed from: every size up to
\* MaxDim x MaxDim with cell values that differ from cell to cell, and an
\* object without arrays.
SamplerGrids ==
    {GridData("index", w, h) : w \in 1..MaxDim, h \in 1..MaxDim}
        \cup {NoArrays(2, 2)}

\* Query coordinates reach one cell beyond the grid on every side.
QueryCoords(extent) == (-Q)..(extent * Q)

InitField ==
    /\ flowField = Null
    /\ probe = [op |-> "none"]
    /\ tr = [pc |-> "idle"]
    /\ col = [last |-> [op |-> "none"], prev |-> [op |-> "none"]]
    /\ emitted = NoOutput
    /\ streamlines = <<>>
    /\ params = DefaultParams
    /\ ui = [density |-> 1, stepSize |-> Q, maxLength |-> 5]
    /\ pending = 0
    /\ loading = FALSE
    /\ alertMsg = "none"
    /\ canvas = renderFlowField(Null, <<>>)
    /\ event = [name |-> "setup", ok |-> TRUE]
    /\ since = "setup"
    /\ generateTimer = NoTimer
    /\ passTimers = <<>>
    /\ burst = NoBurst

\* new FlowField(jsonData): the object is kept when the constructor returns.
NewFlowField ==
    /\ \E d \in SamplerGrids :
          IF FlowFieldThrows(d)
          THEN /\ probe' = [op |-> "new", width |-> d.width, height |-> d.height,
                            error |-> "TypeError"]
               /\ UNCHANGED flowField
          ELSE /\ probe' = [op |-> "new", width |-> d.width, height |-> d.height,
                            error |-> "none"]
               /\ flowField' = FlowField(d)
    /\ UNCHANGED <<tr, col>>
    /\ UNCHANGED <<appVars, emitted>>

\* One call of getGradient, getDepth or getSpeed on the current FlowField.
QueryField ==
    /\ flowField.kind = "FlowField"
    /\ \E x \in QueryCoords(flowField.width), y \in QueryCoords(flowField.height) :
          \/ probe' = [op |-> "getGradient", x |-> x, y |-> y,
                       res |-> getGradient(flowField, x, y)]
          \/ probe' = [op |-> "getDepth", x |-> x, y |-> y,
                       res |-> getDepth(flowField, x, y)]
          \/ probe' = [op |-> "getSpeed", x |-> x, y |-> y,
                       res |-> getSpeed(flowField, x, y)]
    /\ UNCHANGED <<flowField, tr, col>>
    /\ UNCHANGED <<appVars, emitted>>

NextField == NewFlowField \/ QueryField

SpecField == InitField /\ [][NextField]_vars

\* ---------------------------------------------- the integrator on its own
\* The flow fields a streamline is traced on, a 1 x 1 field, a parsed
\* object that never became a FlowField, and the FlowField built from a
\* grid with a short row.
TraceFields ==
    {FlowField(GridData(p, GridW, GridH)) : p \in FlowPatterns}
        \cup {FlowField(GridData("index", 1, 1)), Raw(NoArrays(3, 3)),
              FlowField(RaggedData("east", GridW, GridH + 1))}

\* Values of the minSpeed argument: the default 0.001, and 2.
MinSpeeds == {DefaultMinSpeed, [num |-> 2, den |-> 1]}

InitTrace ==
    /\ flowField \in TraceFields
    /\ tr = [pc |-> "idle"]
    /\ probe = [op |-> "none"]
    /\ col = [last |-> [op |-> "none"], prev |-> [op |-> "none"]]
    /\ emitted = NoOutput
    /\ streamlines = <<>>
    /\ params = DefaultParams
    /\ ui = [density |-> 1, stepSize |-> Q, maxLength |-> 5]
    /\ pending = 0
    /\ loading = FALSE
    /\ alertMsg = "none"
    /\ canvas = renderFlowField(Null, <<>>)
    /\ event = [name |-> "setup", ok |-> TRUE]
    /\ since = "setup"
    /\ generateTimer = NoTimer
    /\ passTimers = <<>>
    /\ burst = NoBurst

\* The call, were the visited-cell record shared between calls: it starts
\* out holding the seed's cell, as a trace from the same seed leaves it.
CallIntegrateSharedVisited ==
    /\ tr.pc = "idle"
    /\ \E x0 \in (-1)..(flowField.width * Q),
          y0 \in {-1, 0, 1, (flowField.height - 2) * Q, (flowField.height - 1) * Q},
          stepSize \in {Q, 2 * Q}, maxLength \in {0, 5, 15}, minSpeed \in MinSpeeds :
          tr' = [pc |-> "loop",
                 args |-> [x0 |-> x0, y0 |-> y0, stepSize |-> stepSize,
                           maxLength |-> maxLength, minSpeed |-> minSpeed],
                 t |-> [TraceStart(x0, y0) EXCEPT
                           !.visited = {<<Floor(x0), Floor(y0)>>}],
                 passes |-> 0,
                 result |-> <<>>]
    /\ UNCHANGED <<flowField, probe, col>>
    /\ UNCHANGED <<appVars, emitted>>

\* integrateStreamline is called: its locals before the loop.
CallIntegrate ==
    /\ tr.pc = "idle"
    /\ \E x0 \in (-1)..(flowField.width * Q),
          y0 \in {-1, 0, 1, (flowField.height - 2) * Q, (flowField.height - 1) * Q},
          stepSize \in {Q, 2 * Q}, maxLength \in {0, 5, 15}, minSpeed \in MinSpeeds :
          tr' = [pc |-> "loop",
                 args |-> [x0 |-> x0, y0 |-> y0, stepSize |-> stepSize,
                           maxLength |-> maxLength, minSpeed |-> minSpeed],
                 t |-> TraceStart(x0, y0),
                 passes |-> 0,
                 result |-> <<>>]
    /\ UNCHANGED <<flowField, probe, col>>
    /\ UNCHANGED <<appVars, emitted>>

\* One test of the for loop and, when it passes, one run of its body.
LoopIteration ==
    /\ tr.pc = "loop"
    /\ LET t == LoopPass(flowField, tr.t, tr.args.stepSize, tr.args.maxLength,
                         tr.args.minSpeed)
       IN tr' = [tr EXCEPT !.t = t, !.pc = t.pc,
                           !.passes = tr.passes + 1]
    /\ UNCHANGED <<flowField, probe, col>>
    /\ UNCHANGED <<appVars, emitted>>

\* The return statement.
ReturnResult ==
    /\ tr.pc = "exit"
    /\ tr' = [tr EXCEPT !.pc = "returned", !.result = TraceResult(tr.t.points)]
    /\ UNCHANGED <<flowField, probe, col>>
    /\ UNCHANGED <<appVars, emitted>>

\* The caller drops the result (or the exception); the next call can start.
DropResult ==
    /\ tr.pc \in {"returned", "threw"}
    /\ tr' = [pc |-> "idle"]
    /\ UNCHANGED <<flowField, probe, col>>
    /\ UNCHANGED <<appVars, emitted>>

NextTrace == CallIntegrate \/ LoopIteration \/ ReturnResult \/ DropResult

SpecTrace == InitTrace /\ [][NextTrace]_vars

\* -------------------------------------------- the colour mapper on its own
\* Scheme names handed to depthToColor: the table's own, two the earlier
\* table had, an unknown one, and a member of Object.prototype.
SchemeNames ==
    {"ocean", "sunset", "white", "forest", "rainbow", "nonexistent", "constructor"}

\* Depths handed to depthToColor: 0/DepthDen .. DepthDen/DepthDen and one
\* step outside [0, 1] on either side.
DepthInputs == (-1)..(DepthDen + 1)

InitColor ==
    /\ col = [last |-> [op |-> "none"], prev |-> [op |-> "none"]]
    /\ emitted = NoOutput
    /\ flowField = Null
    /\ tr = [pc |-> "idle"]
    /\ probe = [op |-> "none"]
    /\ streamlines = <<>>
    /\ params = DefaultParams
    /\ ui = [density |-> 1, stepSize |-> Q, maxLength |-> 5]
    /\ pending = 0
    /\ loading = FALSE
    /\ alertMsg = "none"
    /\ canvas = renderFlowField(Null, <<>>)
    /\ event = [name |-> "setup", ok |-> TRUE]
    /\ since = "setup"
    /\ generateTimer = NoTimer
    /\ passTimers = <<>>
    /\ burst = NoBurst

\* One call of depthToColor; the call before it is remembered.
CallDepthToColor ==
    /\ \E n \in DepthInputs, scheme \in SchemeNames, emphasizeDeep \in BOOLEAN :
          col' = [prev |-> col.last,
                  last |-> [op |-> "depthToColor", depth |-> n, scheme |-> scheme,
                            emphasizeDeep |-> emphasizeDeep,
                            color |-> depthToColor(n, scheme, emphasizeDeep)]]
    /\ UNCHANGED <<flowField, tr, probe>>
    /\ UNCHANGED <<appVars, emitted>>

NextColor == CallDepthToColor

SpecColor == InitColor /\ [][NextColor]_vars

\* ------------------------------------- drawing and export on their own
InitOutput ==
    /\ emitted = NoOutput
    /\ flowField = Null
    /\ tr = [pc |-> "idle"]
    /\ probe = [op |-> "none"]
    /\ col = [last |-> [op |-> "none"], prev |-> [op |-> "none"]]
    /\ streamlines = <<>>
    /\ params = DefaultParams
    /\ ui = [density |-> 1, stepSize |-> Q, maxLength |-> 5]
    /\ pending = 0
    /\ loading = FALSE
    /\ alertMsg = "none"
    /\ canvas = renderFlowField(Null, <<>>)
    /\ event = [name |-> "setup", ok |-> TRUE]
    /\ since = "setup"
    /\ generateTimer = NoTimer
    /\ passTimers = <<>>
    /\ burst = NoBurst

\* The options renderFlowField hands to drawStreamline: depthPower 1.0 or
\* 1.5 (in tenths), invertDepth off or on.
DrawOptions == {[depthPower |-> dp, invertDepth |-> inv] : dp \in {10, 15}, inv \in BOOLEAN}

\* One pass of drawStreamline's segment loop, for a segment whose midpoint
\* depth is depth/DepthDen.
DrawSegment ==
    /\ emitted = NoOutput
    /\ \E depth \in 0..DepthDen, scheme \in DOMAIN ColorSchemes, options \in DrawOptions :
          emitted' = [op |-> "stroke", depth |-> depth, scheme |-> scheme,
                      options |-> options,
                      color |-> StrokeColor(depth, scheme, options)]
    /\ UNCHANGED <<flowField, tr, probe, col>>
    /\ UNCHANGED appVars

\* Longest polyline handed to smoothStreamline and to the export.
MaxPolyline == 3

\* Points of the polylines: segments between them are shorter than 5, shorter
\* than 20, and longer.
PolyPoints ==
    {[x |-> 0, y |-> 0], [x |-> 2 * Q, y |-> Q], [x |-> 6 * Q, y |-> 0],
     [x |-> 30 * Q, y |-> Q], [x |-> 0, y |-> 25 * Q]}

RECURSIVE SeqsUpTo(_, _)
\* The sequences over S of length at most n.
SeqsUpTo(S, n) ==
    IF n = 0 THEN {<<>>}
    ELSE LET shorter == SeqsUpTo(S, n - 1)
         IN shorter \cup {Append(q, e) : q \in {r \in shorter : Len(r) = n - 1}, e \in S}

Polylines == SeqsUpTo(PolyPoints, MaxPolyline)

\* One call of smoothStreamline.
CallSmooth ==
    /\ emitted = NoOutput
    /\ \E points \in Polylines :
          emitted' = [op |-> "smooth", points |-> points,
                      result |-> smoothStreamline(points)]
    /\ UNCHANGED <<flowField, tr, probe, col>>
    /\ UNCHANGED appVars

\* A polyline of n points with coordinates on both sides of 0.
Ramp(n, dy) == [k \in 1..n |-> [x |-> k * Q + 1, y |-> dy - k]]

\* The streamline sets handed to the export: up to three polylines of 0 to
\* MaxPolyline points each.
ExportInputs ==
    SeqsUpTo({Ramp(n, dy) : n \in 0..MaxPolyline, dy \in {0, 1}}, 3)

\* One call of exportSVGForLaser on a given streamline set.
CallExport ==
    /\ emitted = NoOutput
    /\ \E lines \in ExportInputs :
          emitted' = [op |-> "export", lines |-> lines,
                      paths |-> exportSVGForLaser(lines)]
    /\ UNCHANGED <<flowField, tr, probe, col>>
    /\ UNCHANGED appVars

\* One pass of the seed loops of generateStreamlines up to the two constrain
\* calls: the seed of cell (i, j) on a width x height field.
PlaceSeed ==
    /\ emitted = NoOutput
    /\ \E density \in DensityChoices, width \in {1, GridW}, height \in {1, GridH} :
         \E i \in 0..(GridSize(density) - 1), j \in 0..(GridSize(density) - 1),
            kx \in 0..(JitterLevels - 1), ky \in 0..(JitterLevels - 1) :
            emitted' = [op |-> "seed", gridSize |-> GridSize(density),
                        width |-> width, height |-> height, i |-> i, j |-> j,
                        rawx |-> SeedOffset(i, kx), rawy |-> SeedOffset(j, ky),
                        x |-> SeedCoord(i, kx, width, GridSize(density)),
                        y |-> SeedCoord(j, ky, height, GridSize(density))]
    /\ UNCHANGED <<flowField, tr, probe, col>>
    /\ UNCHANGED appVars

\* The caller takes what the call put out; the next call can start.
TakeOutput ==
    /\ emitted # NoOutput
    /\ emitted' = NoOutput
    /\ UNCHANGED <<flowField, tr, probe, col>>
    /\ UNCHANGED appVars

NextOutput == DrawSegment \/ CallSmooth \/ CallExport \/ PlaceSeed \/ TakeOutput

SpecOutput == InitOutput /\ [][NextOutput]_vars

\* ------------------------------------- the debounced sketch (part_000)
\* Delay of the debounce timer and of the generation callback, in ms.
DebounceMs == 300
PassMs == 10

\* params after the density slider's listener stored a value; stepSize and
\* maxLength keep the values params is declared with.  The density slider
\* stands for the three sliders whose listeners call
\* debouncedGenerateStreamlines.
DebounceParams == {[DefaultParams EXCEPT !.density = d] : d \in DensityChoices}

\* The field the debounced sketch has loaded, if any.
DebounceFields == {Null, Constructed["east"]}

\* GeneratePass tabulated for the debounced sketch.
DebouncePassTable ==
    [f \in DebounceFields, p \in DebounceParams |-> GeneratePass(f, p)]

InitDebounce ==
    /\ flowField \in DebounceFields
    /\ streamlines = <<>>
    /\ params = DefaultParams
    /\ ui = [density |-> DefaultDensity, stepSize |-> 2 * Q,
             maxLength |-> DefaultMaxLength]
    /\ pending = 0
    /\ loading = FALSE
    /\ alertMsg = "none"
    /\ canvas = renderFlowField(Null, <<>>)
    /\ event = [name |-> "setup", ok |-> TRUE]
    /\ since = "setup"
    /\ generateTimer = NoTimer
    /\ passTimers = <<>>
    /\ burst = NoBurst
    /\ tr = [pc |-> "idle"]
    /\ probe = [op |-> "none"]
    /\ col = [last |-> [op |-> "none"], prev |-> [op |-> "none"]]
    /\ emitted = NoOutput

\* A timer that has run down fires before anything else happens.
TimerDue ==
    generateTimer = 0 \/ \E k \in 1..Len(passTimers) : passTimers[k] = 0

\* debouncedGenerateStreamlines: clearTimeout of the timer that is set, then
\* setTimeout(..., 300).
debouncedGenerateStreamlines(timer) == DebounceMs

\* An input event of the density slider: the listener stores the value in
\* params and calls debouncedGenerateStreamlines.
SliderInput ==
    /\ ~TimerDue
    /\ \E d \in DensityChoices :
          /\ d # params.density
          /\ params' = [params EXCEPT !.density = d]
          /\ ui' = [ui EXCEPT !.density = d]
    /\ generateTimer' = debouncedGenerateStreamlines(generateTimer)
    /\ burst' = [burst EXCEPT !.events = TRUE, !.elapsed = 0, !.calls = 0]
    /\ event' = [name |-> "input", ok |-> TRUE]
    /\ emitted' = NoOutput
    /\ UNCHANGED <<flowField, streamlines, pending, loading, alertMsg, canvas,
                   since, passTimers, tr, probe, col>>

\* The debounce timer fires and calls generateStreamlines: nothing without
\* a flowField, else show the loading indicator and setTimeout(..., 10).
DebounceFires ==
    /\ generateTimer = 0
    /\ generateTimer' = NoTimer
    /\ IF flowField.kind = "null"
       THEN UNCHANGED <<loading, passTimers>>
       ELSE /\ loading' = TRUE
            /\ passTimers' = Append(passTimers, PassMs)
    /\ burst' = [burst EXCEPT !.calls = burst.calls + 1, !.requested = params]
    /\ event' = [name |-> "debounce", ok |-> flowField.kind # "null"]
    /\ emitted' = NoOutput
    /\ UNCHANGED <<flowField, streamlines, params, ui, pending, alertMsg, canvas,
                   since, tr, probe, col>>

\* The generation callback of part_000: as in part_001 without the render;
\* it reads params when it runs.
PassRuns ==
    /\ passTimers # <<>>
    /\ Head(passTimers) = 0
    /\ passTimers' = Tail(passTimers)
    /\ \E out \in DebouncePassTable[flowField, params] :
          /\ streamlines' = out.lines
          /\ loading' = IF out.threw THEN loading ELSE FALSE
          /\ event' = [name |-> "timeout", ok |-> ~out.threw]
    /\ emitted' = [op |-> "pass", used |-> params]
    /\ UNCHANGED <<flowField, params, ui, pending, alertMsg, canvas, since,
                   generateTimer, burst, tr, probe, col>>

\* PassMs of time go by with no timer due.
Tick ==
    /\ ~TimerDue
    /\ generateTimer' = IF generateTimer = NoTimer THEN NoTimer
                        ELSE generateTimer - PassMs
    /\ passTimers' = [k \in 1..Len(passTimers) |-> passTimers[k] - PassMs]
    /\ burst' = [burst EXCEPT
                    !.elapsed = Min(burst.elapsed + PassMs, DebounceMs + PassMs)]
    /\ UNCHANGED <<flowField, streamlines, params, ui, pending, loading, alertMsg,
                   canvas, event, since, tr, probe, col, emitted>>

NextDebounce == SliderInput \/ DebounceFires \/ PassRuns \/ Tick

SpecDebounce == InitDebounce /\ [][NextDebounce]_vars

\* ------------------------------------------------------------ properties
Queries == {"getGradient", "getDepth", "getSpeed"}

\* C1: integrateStreamline makes at most maxLength integration steps (and
\* at most maxLength + 1 tests of its loop), so the traced path never has
\* more than maxLength + 1 points, whatever the field, seed and stepSize.
C1_StepBound ==
    tr.pc \in {"loop", "exit", "threw", "returned"} =>
        /\ tr.t.i <= tr.args.maxLength
        /\ tr.passes <= tr.args.maxLength + 1
        /\ Len(tr.t.points) <= tr.args.maxLength + 1

\* A trace that used all of its maxLength > 0 steps.
C1_Witness ==
    /\ tr.pc = "exit"
    /\ tr.args.maxLength > 0
    /\ tr.t.i = tr.args.maxLength
    /\ Len(tr.t.points) = tr.args.maxLength + 1

\* C2: the result of integrateStreamline is empty or has more than 10
\* points and starts at the seed; a trace of fewer than 10 steps returns
\* the empty result.
C2_EmptyOrLong ==
    tr.pc = "returned" =>
        /\ \/ tr.result = <<>>
           \/ /\ Len(tr.result) > 10
              /\ tr.result[1] = [x |-> tr.args.x0, y |-> tr.args.y0]
        /\ tr.t.i < 10 => tr.result = <<>>

\* A call that returned a path.
C2_Witness ==
    /\ tr.pc = "returned"
    /\ Len(tr.result) > 10

\* The stored value, in the unit a query returns it in.
Stored(A, ix, iy) == A[iy][ix] * Q * Q

\* C3: on a grid of at least 2 x 2, a query at an integer coordinate
\* (ix, iy) inside the grid, last row and last column included, returns
\* exactly the stored U, V, depth or speed of that cell.
C3_ExactAtNodes ==
    (/\ probe.op \in Queries
     /\ flowField.width >= 2
     /\ flowField.height >= 2
     /\ probe.x % Q = 0
     /\ probe.y % Q = 0
     /\ probe.x \in 0..((flowField.width - 1) * Q)
     /\ probe.y \in 0..((flowField.height - 1) * Q))
    => LET ix == probe.x \div Q
           iy == probe.y \div Q
       IN /\ probe.res.status = "ok"
          /\ probe.op = "getGradient" =>
                /\ probe.res.u = Stored(flowField.U, ix, iy)
                /\ probe.res.v = Stored(flowField.V, ix, iy)
          /\ probe.op = "getDepth" =>
                probe.res.value = Stored(flowField.depth, ix, iy)
          /\ probe.op = "getSpeed" =>
                probe.res.value = Stored(flowField.speed, ix, iy)

\* A gradient query at the last row and last column of a grid of at least
\* 2 x 2.
C3_Witness ==
    /\ probe.op = "getGradient"
    /\ flowField.width >= 2
    /\ flowField.height >= 2
    /\ probe.x = (flowField.width - 1) * Q
    /\ probe.y = (flowField.height - 1) * Q

\* The query of probe, repeated at another point.
QueryAt(op, f, x, y) ==
    CASE op = "getGradient" -> getGradient(f, x, y)
      [] op = "getDepth"    -> getDepth(f, x, y)
      [] OTHER              -> getSpeed(f, x, y)

\* C4: every query, at any (x, y), completes without error, reads only
\* cells inside the grid, and returns what the query at the clamped point
\* returns.
C4_QueriesNeverFail ==
    probe.op \in Queries =>
        /\ probe.res.status = "ok"
        /\ \A c \in probe.res.cells :
              c[1] \in 0..(flowField.height - 1) /\ c[2] \in 0..(flowField.width - 1)
        /\ probe.res = QueryAt(probe.op, flowField,
                               constrain(probe.x, 0, (flowField.width - 1) * Q),
                               constrain(probe.y, 0, (flowField.height - 1) * Q))

\* C5: constructing a FlowField from a grid with width or height below 2
\* fails with InvalidGridDimensions, and no FlowField with width or height
\* below 2 exists.
C5_DegenerateRejected ==
    /\ (probe.op = "new" /\ (probe.width < 2 \/ probe.height < 2))
          => probe.error = "InvalidGridDimensions"
    /\ flowField.kind = "FlowField"
          => flowField.width >= 2 /\ flowField.height >= 2

\* C6: after a load that failed (text that does not parse, or data that is
\* not a well-formed grid) the user has been shown an error and flowField
\* does not hold a raw parsed object.
C6_FailedLoadSurfaced ==
    (event.name = "load" /\ ~event.ok) =>
        /\ alertMsg = "Error loading file. Please check the file format."
        /\ flowField.kind # "raw"

\* C7: every polyline in streamlines has more than 10 points, after any
\* sequence of loads, control changes, Generate clicks, resets and timer
\* callbacks.
C7_StoredAreLong ==
    \A k \in 1..Len(streamlines) : Len(streamlines[k]) > 10

\* A generation callback that stored at least one streamline.
C7_Witness ==
    /\ event.name = "timeout"
    /\ Len(streamlines) > 0

\* The scheme names the specification treats as supported.
SupportedSchemes == {"ocean", "sunset", "forest", "rainbow", "white"}

\* C8: for a scheme name that is not a supported scheme, depthToColor
\* returns the gray (128, 128, 128) for every depth and either
\* emphasizeDeep setting, and raises no error.
C8_UnknownIsGray ==
    (col.last.op = "depthToColor" /\ col.last.scheme \notin SupportedSchemes) =>
        /\ col.last.color.status = "ok"
        /\ col.last.color.r = 128 * TDen
        /\ col.last.color.g = 128 * TDen
        /\ col.last.color.b = 128 * TDen

\* C9: for ocean, sunset and forest, depthToColor returns the per-channel
\* linear interpolation from the scheme's deep colour (blend factor 0) to
\* its shallow colour (blend factor 1), and never the gray fallback.
C9_TwoStopInterpolates ==
    (/\ col.last.op = "depthToColor"
     /\ col.last.scheme \in {"ocean", "sunset", "forest"}
     /\ col.last.depth \in 0..DepthDen)
    => /\ col.last.color.status = "ok"
       /\ col.last.color # Gray
       /\ col.last.scheme \in DOMAIN ColorSchemes
       /\ LET stops == ColorSchemes[col.last.scheme]
              amt   == BlendFactor(col.last.depth, col.last.emphasizeDeep).t
          IN /\ col.last.color.r
                  = stops.deep[1] * TDen + amt * (stops.shallow[1] - stops.deep[1])
             /\ col.last.color.g
                  = stops.deep[2] * TDen + amt * (stops.shallow[2] - stops.deep[2])
             /\ col.last.color.b
                  = stops.deep[3] * TDen + amt * (stops.shallow[3] - stops.deep[3])

\* The schemes of the table that blend between two stops.
TwoStopSchemes == {s \in DOMAIN ColorSchemes : ~ColorSchemes[s].useAlpha}

\* Two calls in a row on the same two-stop scheme with emphasizeDeep =
\* false, at depths d1 <= d2 of [0, 1].
C10_Case ==
    /\ col.prev.op = "depthToColor"
    /\ col.last.op = "depthToColor"
    /\ col.prev.scheme = col.last.scheme
    /\ col.last.scheme \in TwoStopSchemes
    /\ ~col.prev.emphasizeDeep
    /\ ~col.last.emphasizeDeep
    /\ col.prev.depth \in 0..DepthDen
    /\ col.last.depth \in 0..DepthDen
    /\ col.prev.depth <= col.last.depth

\* Channel values c1 (at d1) and c2 (at d2) are ordered from the deep stop
\* towards the shallow stop and lie between the two stops.
Ordered(deep, shallow, c1, c2) ==
    IF shallow >= deep
    THEN deep * TDen <= c1 /\ c1 <= c2 /\ c2 <= shallow * TDen
    ELSE deep * TDen >= c1 /\ c1 >= c2 /\ c2 >= shallow * TDen

\* C10: for a two-stop scheme with emphasizeDeep = false and depths
\* d1 <= d2 in [0, 1], each RGB channel of depthToColor(d1) and
\* depthToColor(d2) is ordered in the direction from the deep stop to the
\* shallow stop, and lies between the two stops.
C10_Monotone ==
    C10_Case =>
        LET stops == ColorSchemes[col.last.scheme]
            c1    == col.prev.color
            c2    == col.last.color
        IN /\ c1.status = "ok"
           /\ c2.status = "ok"
           /\ Ordered(stops.deep[1], stops.shallow[1], c1.r, c2.r)
           /\ Ordered(stops.deep[2], stops.shallow[2], c1.g, c2.g)
           /\ Ordered(stops.deep[3], stops.shallow[3], c1.b, c2.b)

\* Two such calls at different depths strictly inside (0, 1).
C10_Witness ==
    /\ C10_Case
    /\ 0 < col.prev.depth
    /\ col.prev.depth < col.last.depth
    /\ col.last.depth < DepthDen

\* C11: with invertDepth set, a segment whose midpoint depth is d is
\* stroked with the colour of depth 1 - d (the inversion comes before the
\* power transform); with invertDepth unset, with the colour of d.
C11_InvertDepthApplied ==
    emitted.op = "stroke" =>
        emitted.color
            = depthToColor(IF emitted.options.invertDepth
                           THEN DepthDen - emitted.depth ELSE emitted.depth,
                           emitted.scheme, TRUE)

\* C12: after construction, speed[y][x] is sqrt(U[y][x]^2 + V[y][x]^2) for
\* every cell (here: the largest multiple of 1/Q not above it), and
\* maxSpeed is the maximum of speed over all cells.
C12_SpeedDerived ==
    flowField.kind = "FlowField" =>
        LET rows  == 0..(flowField.height - 1)
            cols  == 0..(flowField.width - 1)
            sq(y, x) == (flowField.U[y][x] * flowField.U[y][x]
                         + flowField.V[y][x] * flowField.V[y][x]) * Q * Q
        IN /\ \A y \in rows : \A x \in cols :
                 LET s == flowField.speed[y][x]
                 IN s >= 0 /\ s * s <= sq(y, x) /\ sq(y, x) < (s + 1) * (s + 1)
           /\ \E y \in rows : \E x \in cols :
                 flowField.maxSpeed = flowField.speed[y][x]
           /\ \A y \in rows : \A x \in cols :
                 flowField.maxSpeed >= flowField.speed[y][x]

\* A FlowField just constructed from a grid of at least 2 x 2 whose cells
\* do not all have the same speed.
C12_Witness ==
    /\ probe.op = "new"
    /\ probe.error = "none"
    /\ flowField.kind = "FlowField"
    /\ flowField.width >= 2
    /\ flowField.height >= 2
    /\ flowField.speed[0][0] < flowField.maxSpeed

\* C13: smoothStreamline returns a polyline of 0 or 1 points unchanged.
C13_ShortPassThrough ==
    (emitted.op = "smooth" /\ Len(emitted.points) < 2) =>
        /\ emitted.result.points = emitted.points
        /\ emitted.result.den = 1

\* A call of smoothStreamline on a single point.
C13_Witness ==
    /\ emitted.op = "smooth"
    /\ Len(emitted.points) = 1

\* C14: once a FlowField is built, nothing but the load of another file
\* changes the global flowField: no generation pass (with its traces and
\* gradient queries), render, reset, export or control change alters its
\* width, height, U, V, depth, speed or maxSpeed.
C14_FieldImmutable ==
    [][flowField.kind = "FlowField" =>
          (flowField' = flowField \/ event'.name = "load")]_vars

\* An export after a generation pass on a FlowField stored and drew
\* streamlines.
C14_Witness ==
    /\ flowField.kind = "FlowField"
    /\ event.name = "export"
    /\ event.ok
    /\ canvas.kind = "lines"

\* C15: integrateStreamline is a function of its arguments.  Every call,
\* whatever calls ran before it, starts from the seed with an empty
\* visited-cell record, and what it returns (or that it throws) is what
\* the seed, field, stepSize, maxLength and minSpeed alone determine.
C15_Deterministic ==
    /\ (tr.pc = "loop" /\ tr.passes = 0) =>
          /\ tr.t.visited = {}
          /\ tr.t.points = <<[x |-> tr.args.x0, y |-> tr.args.y0]>>
    /\ tr.pc \in {"returned", "threw"} =>
          LET r == integrateStreamline(tr.args.x0, tr.args.y0, flowField,
                                       tr.args.stepSize, tr.args.maxLength,
                                       tr.args.minSpeed)
          IN /\ r.threw = (tr.pc = "threw")
             /\ tr.pc = "returned" => tr.result = r.points

\* A call that returned a path of more than 10 points.
C15_Witness ==
    /\ tr.pc = "returned"
    /\ Len(tr.result) > 10
    /\ tr.t.visited # {}

\* C16: changing a parameter control changes neither the stored params nor
\* the stored streamlines; params is written only by a click on Generate.
C16_SnapshotAtGenerate ==
    [][/\ event'.name = "input" =>
              (params' = params /\ streamlines' = streamlines)
       /\ params' # params => event'.name = "generate"]_vars

\* After a generation pass stored streamlines, a control was changed: the
\* controls now differ from the stored params.
C16_Witness ==
    /\ event.name = "input"
    /\ Len(streamlines) > 0
    /\ ui.invertDepth # params.invertDepth
    /\ ui.density # params.density

\* C17: no partial result of a generation pass is surfaced.  Renders and
\* exports run between handlers and see streamlines as the last handler
\* left it, so: whenever a handler changes streamlines, it leaves it empty
\* or it is a generation callback that ran to its end; and whenever the
\* canvas is redrawn, it shows the set stored at that moment.
C17_NoPartialResults ==
    [][/\ streamlines' # streamlines =>
              (streamlines' = <<>> \/ (event'.name = "timeout" /\ event'.ok))
       /\ (canvas' # canvas /\ canvas'.kind = "lines") =>
              canvas'.drawn = Len(streamlines')]_vars

\* C18: the seed of cell (i, j) is the cell centre plus a jitter of at most
\* half a step each way, so before clamping it lies inside its own cell,
\* [i * xStep, (i + 1) * xStep) x [j * yStep, (j + 1) * yStep); after clamping
\* it lies in [0, width - 1] x [0, height - 1].  (Positions before clamping
\* are in units of step / (2 * JitterLevels).)
C18_SeedInOwnCell ==
    emitted.op = "seed" =>
        /\ 2 * emitted.i * JitterLevels <= emitted.rawx
        /\ emitted.rawx <= 2 * (emitted.i + 1) * JitterLevels
        /\ 2 * emitted.j * JitterLevels <= emitted.rawy
        /\ emitted.rawy <= 2 * (emitted.j + 1) * JitterLevels
        /\ 0 <= emitted.x /\ emitted.x <= (emitted.width - 1) * Q
        /\ 0 <= emitted.y /\ emitted.y <= (emitted.height - 1) * Q

\* The streamlines of at least two points, in stored order.
ExportedLines(lines) == SelectSeq(lines, LAMBDA l : Len(l) >= 2)

\* C19: the export writes exactly one path per stored streamline of at least
\* two points, in stored order, and none for a shorter one; each path is one
\* M for the first point followed by one L for each further point, with the
\* coordinates of that point.
C19_OnePathPerLine ==
    emitted.op = "export" =>
        LET kept == ExportedLines(emitted.lines)
        IN  /\ Len(emitted.paths) = Len(kept)
            /\ \A n \in 1..Len(kept) :
                  /\ Len(emitted.paths[n]) = Len(kept[n])
                  /\ emitted.paths[n][1].cmd = "M"
                  /\ \A k \in 2..Len(kept[n]) : emitted.paths[n][k].cmd = "L"
                  /\ \A k \in 1..Len(kept[n]) :
                        /\ emitted.paths[n][k].x = ToFixed2(kept[n][k].x)
                        /\ emitted.paths[n][k].y = ToFixed2(kept[n][k].y)

\* An export of three streamlines, the middle one too short for a path, the
\* outer two different and of three points.
C19_Witness ==
    /\ emitted.op = "export"
    /\ Len(emitted.lines) = 3
    /\ Len(emitted.lines[1]) = 3
    /\ Len(emitted.lines[2]) = 1
    /\ Len(emitted.lines[3]) = 3
    /\ emitted.lines[1] # emitted.lines[3]
    /\ Len(emitted.paths) = 2

\* The region [0, width - 1) x [0, height - 1) of a field.
InRegion(f, p) ==
    /\ ~p.nan
    /\ 0 <= p.x /\ p.x < (f.width - 1) * Q
    /\ 0 <= p.y /\ p.y < (f.height - 1) * Q

\* The pass of the loop that starts from these locals reaches the call of
\* flowField.getGradient(x, y): the loop test passes and neither break is
\* taken (on a NaN position no comparison of the bounds check is true, and
\* the key "NaN,NaN" has not been visited).
ReachesGradient(f, t, maxLength) ==
    /\ f.kind = "FlowField"
    /\ LoopTest(t.i, maxLength)
    /\ \/ t.nan
       \/ /\ ~OutOfBounds(f, t.x, t.y)
          /\ ~Visited(t.visited, <<Floor(t.x), Floor(t.y)>>)

\* C20: every position at which the integrator calls getGradient lies in
\* [0, width - 1) x [0, height - 1), and so does every point of the traced
\* path except possibly the last.
C20_SamplesInside ==
    [][/\ (tr.pc = "loop" /\ tr'.pc # "idle"
             /\ ReachesGradient(flowField, tr.t, tr.args.maxLength)) =>
              InRegion(flowField, [x |-> tr.t.x, y |-> tr.t.y, nan |-> tr.t.nan])
       /\ (tr'.pc \in {"loop", "exit", "returned"} /\ flowField.kind = "FlowField") =>
              \A k \in 1..(Len(tr'.t.points) - 1) :
                  InRegion(flowField, tr'.t.points[k] @@ [nan |-> FALSE])]_vars

\* The integer cell of a point.
CellOf(p) == <<Floor(p.x), Floor(p.y)>>

\* C21: within one trace the positions a step is taken from (every point of
\* the path but the last) lie in pairwise distinct integer cells; so there
\* are at most (width - 1) * (height - 1) steps and one point more, whatever
\* maxLength is; and a pass that starts in a cell of an earlier position
\* ends the trace.
C21_DistinctCells ==
    [][tr'.pc \in {"loop", "exit", "threw", "returned"} =>
         LET points == tr'.t.points
             cells  == (flowField.width - 1) * (flowField.height - 1)
         IN  /\ \A a, b \in 1..(Len(points) - 1) :
                   a # b => CellOf(points[a]) # CellOf(points[b])
             /\ tr'.t.i <= cells
             /\ Len(points) <= cells + 1
             /\ (/\ tr.pc = "loop"
                 /\ tr.t.points = points
                 /\ ~tr.t.nan
                 /\ \E a \in 1..(Len(points) - 1) :
                       CellOf(points[a]) = CellOf(points[Len(points)]))
                    => tr'.pc = "exit"]_vars

\* A trace that stepped into a cell it had been in, inside the field and
\* with steps to spare, and ended there.
C21_Witness ==
    /\ tr.pc = "exit"
    /\ flowField.kind = "FlowField"
    /\ tr.t.i >= 1
    /\ LoopTest(tr.t.i, tr.args.maxLength)
    /\ ~OutOfBounds(flowField, tr.t.x, tr.t.y)
    /\ \E a \in 1..(Len(tr.t.points) - 1) :
          CellOf(tr.t.points[a]) = CellOf(tr.t.points[Len(tr.t.points)])

\* An input point in the unit of the smoothed coordinates.
Scaled(p) == [x |-> p.x * SmoothDen, y |-> p.y * SmoothDen]

RECURSIVE SegmentStart(_, _)
\* Where the samples of segment i (0-based) start in the smoothed array.
SegmentStart(points, i) ==
    IF i = 0 THEN 1
    ELSE SegmentStart(points, i - 1) + Len(SegmentSamples(points, i - 1))

\* No two consecutive points of the polyline are the same point.
Moving(points) == \A k \in 1..(Len(points) - 1) : points[k] # points[k + 1]

\* C22: for a polyline of n >= 2 points (each different from the one before
\* it) the smoothed array holds the samples of segment 0, then those of
\* segment 1, and so on; the samples of segment i open with the input point
\* p[i] (the t = 0 sample), so p[0], ..., p[n-2] appear in order; and the
\* last smoothed point is not the final input point p[n-1].
C22_SmoothedShape ==
    (emitted.op = "smooth" /\ Len(emitted.points) >= 2 /\ Moving(emitted.points)) =>
        LET points   == emitted.points
            n        == Len(points)
            smoothed == emitted.result.points
        IN  /\ Len(smoothed) = SegmentStart(points, n - 1) - 1
            /\ \A i \in 0..(n - 2) :
                  /\ smoothed[SegmentStart(points, i)] = Scaled(points[i + 1])
                  /\ SubSeq(smoothed, SegmentStart(points, i),
                            SegmentStart(points, i + 1) - 1)
                        = SegmentSamples(points, i)
            /\ smoothed[Len(smoothed)] # Scaled(points[n])

\* C23: after a successful load of a grid file the streamline set is empty
\* and stays empty until a Generate click made after the load: while the
\* load is the latest of load, reset and Generate click, streamlines is
\* empty.
C23_EmptyAfterLoad == since = "load" => streamlines = <<>>

\* C25: after resetCanvas the streamline set is empty and stays empty until
\* the next Generate click: while the reset is the latest of load, reset and
\* Generate click, streamlines is empty.
C25_EmptyAfterReset == since = "reset" => streamlines = <<>>

\* C26: the loading indicator is shown whenever a scheduled generation
\* callback has not yet run, and is hidden only when none is pending.
C26_LoadingWhilePending == pending > 0 => loading

\* C24: in the debounced sketch a burst of slider events, each less than
\* 300 ms after the one before, triggers exactly one call of
\* generateStreamlines: none until 300 ms after the burst's last event, one
\* from then on; and the generation that call starts uses the parameter
\* values the last event of the burst had set.
C24_OneCallPerBurst ==
    /\ burst.calls <= 1
    /\ (burst.events /\ burst.elapsed < DebounceMs) => burst.calls = 0
    /\ (burst.events /\ burst.elapsed > DebounceMs) => burst.calls = 1
    /\ emitted.op = "pass" => emitted.used = burst.requested

====
